---- MODULE Spec2Model ----
(***************************************************************************)
(* Model of scripts/cleanup_report.py: main() runs gather_data (a walk     *)
(* over a folder that collects code files and reads metadata.yaml) and     *)
(* then write_report (reconciliation of the metadata references against   *)
(* the collected files, then the report).                                  *)
(*                                                                         *)
(* Strings are sequences of one-character strings, so that lower(),        *)
(* splitext() and the URL construction are computed and not assumed.       *)
(* GITHUB_URL is kept as one element; it holds no upper-case letter and    *)
(* ends with a slash.                                                      *)
(***************************************************************************)
EXTENDS Integers, Sequences, FiniteSets, TLC

\* Bound on the size of the metadata read in one run: the number of YAML
\* documents plus the number of file entries in them.
MaxInput == 4

----------------------------------------------------------------------------
\* String helpers

GITHUB_URL == "https://github.com/awsdocs/aws-doc-sdk-examples/tree/master/"

METADATA_FILENAME == <<"m","e","t","a","d","a","t","a",".","y","a","m","l">>

ToLower ==
    ("A" :> "a") @@ ("B" :> "b") @@ ("C" :> "c") @@ ("D" :> "d") @@ ("E" :> "e") @@
    ("F" :> "f") @@ ("G" :> "g") @@ ("H" :> "h") @@ ("I" :> "i") @@ ("J" :> "j") @@
    ("K" :> "k") @@ ("L" :> "l") @@ ("M" :> "m") @@ ("N" :> "n") @@ ("O" :> "o") @@
    ("P" :> "p") @@ ("Q" :> "q") @@ ("R" :> "r") @@ ("S" :> "s") @@ ("T" :> "t") @@
    ("U" :> "u") @@ ("V" :> "v") @@ ("W" :> "w") @@ ("X" :> "x") @@ ("Y" :> "y") @@
    ("Z" :> "z")

\* str.lower()
Lower(s) == [k \in 1..Len(s) |-> IF s[k] \in DOMAIN ToLower THEN ToLower[s[k]] ELSE s[k]]

\* The greatest element of a set of indices, 0 when it is empty.
Last(hits) == IF hits = {} THEN 0 ELSE CHOOSE k \in hits : \A m \in hits : m <= k

\* str.rfind on a path: the last separator, the last dot.
LastSep(p) == Last({ k \in 1..Len(p) : p[k] = "/" \/ p[k] = GITHUB_URL })
LastDot(p) == Last({ k \in 1..Len(p) : p[k] = "." })

\* os.path.splitext(p)[1]: from the last dot of the last path component on,
\* empty when that component has no dot or only leading dots.
SplitextExt(p) ==
    LET sep == LastSep(p)
        dot == LastDot(p)
    IN  IF dot > sep /\ \E k \in (sep + 1)..(dot - 1) : p[k] # "."
        THEN SubSeq(p, dot, Len(p))
        ELSE <<>>

\* str.lstrip('.')
RECURSIVE LstripDot(_)
LstripDot(s) == IF s # <<>> /\ Head(s) = "." THEN LstripDot(Tail(s)) ELSE s

\* os.path.splitext(name)[1].lstrip('.')
Ext(p) == LstripDot(SplitextExt(p))

\* os.path.join(folder_name, file_name)
PathJoin(folder, name) == folder \o <<"/">> \o name

\* os.path.split(path)[0]: what precedes the last slash.
SplitHead(path) ==
    LET sep == LastSep(path)
    IN  IF sep = 0 THEN <<>> ELSE SubSeq(path, 1, sep - 1)

\* urllib.request.pathname2url on POSIX is urllib.parse.quote: letters, digits
\* and _ . - ~ / are kept, a space becomes %20.
RECURSIVE pathname2url(_)
pathname2url(s) ==
    IF s = <<>> THEN <<>>
    ELSE (IF Head(s) = " " THEN <<"%", "2", "0">> ELSE <<Head(s)>>) \o pathname2url(Tail(s))

\* urljoin(base, url) for a base that ends with a slash and a relative url
\* without scheme, leading slash or dot segments (all the model draws).
urljoin(base, url) == base \o url

make_github_url(folder_name, file_name) ==
    LET folder_url == pathname2url(folder_name)
        base_url   == urljoin(<<GITHUB_URL>>, folder_url) \o <<"/">>
        file_url   == pathname2url(file_name)
    IN  urljoin(base_url, file_url)

EXT_LOOKUP ==
    (<<"c">> :> "C") @@ (<<"c","p","p">> :> "C++") @@ (<<"c","s">> :> "C#") @@
    (<<"g","o">> :> "Go") @@ (<<"h","t","m","l">> :> "JavaScript") @@
    (<<"j","a","v","a">> :> "Java") @@ (<<"j","s">> :> "JavaScript") @@
    (<<"p","h","p">> :> "PHP") @@ (<<"p","y">> :> "Python") @@ (<<"r","b">> :> "Ruby") @@
    (<<"t","s">> :> "TypeScript") @@ (<<"s","h">> :> "AWS-CLI") @@
    (<<"c","m","d">> :> "AWS-CLI")

r_md == <<"r", ".", "m", "d">>

----------------------------------------------------------------------------
\* The inputs the model draws

\* The scanned folder (its name holds a space, which pathname2url encodes).
FOLDER == <<"a", " ", "b">>

x_py == <<"x", ".", "p", "y">>
X_py == <<"X", ".", "p", "y">>
x_PY == <<"x", ".", "P", "Y">>

s3  == <<"s3">>
ec2 == <<"ec2">>

\* The code and other files found in the folder, in the order os.walk lists them.
DirLists ==
    { <<>>, <<x_py>>, <<x_PY>>, <<x_py, X_py>>, <<r_md, x_py>> }

\* File entries of a metadata record: with or without `path`, with or
\* without `services`.
Entries ==
    { [services |-> <<s3>>],
      [path |-> x_py],
      [path |-> x_py, services |-> <<>>],
      [path |-> x_py, services |-> <<s3, s3>>],
      [path |-> x_py, services |-> <<s3, ec2>>],
      [path |-> X_py],
      [path |-> x_PY] }

\* The mappings yaml.safe_load_all can yield that add n to the size of the
\* input: one without `files`, or one with n - 1 file entries.
DocsOfSize(n) ==
    { [files |-> e] : e \in [1..(n - 1) -> Entries] }
    \cup (IF n = 1 THEN {[title |-> <<"t">>]} ELSE {})

\* Documents plus file entries of the records read so far.
RECURSIVE InputSize(_)
InputSize(exs) ==
    IF exs = <<>> THEN 0
    ELSE 1 + (IF "files" \in DOMAIN Head(exs) THEN Len(Head(exs).files) ELSE 0)
           + InputSize(Tail(exs))

Metadata_yaml == <<"M">> \o Tail(METADATA_FILENAME)

PlainFile(name) == [folder |-> FOLDER, name |-> name]

\* The files os.walk yields: a metadata file before or after the others, or
\* two metadata files (their names differ in case) around a code file.
Walks ==
    UNION { { <<PlainFile(METADATA_FILENAME)>> \o [k \in 1..Len(c) |-> PlainFile(c[k])],
              [k \in 1..Len(c) |-> PlainFile(c[k])] \o <<PlainFile(METADATA_FILENAME)>> }
            : c \in DirLists }
    \cup { << PlainFile(METADATA_FILENAME), PlainFile(x_py), PlainFile(Metadata_yaml) >> }

\* args.report: a file name, or a value that is false (None, '').
NoPath == <<>>
ReportPaths == { NoPath, <<"r", ".", "c", "s", "v">> }

----------------------------------------------------------------------------
VARIABLES
    pc,             \* where main() is
    walk,           \* gather_data: the files os.walk has still to yield
    file_path,      \* read_metadata: the metadata file being read
    examples,       \* gather_data / write_report: the metadata records
    files,          \* gather_data: files; write_report: repo_files
    report_path,    \* write_report argument
    i, j,           \* write_report: current example, current entry of it
    lines, clean_files, missing_files, bad_examples,
    report,         \* the destination: "unset", "stdout", "open", "closed"
    out,            \* what has been written to the destination, write by write
    failed,         \* an exception is propagating out of the try block
    log             \* what print() has written, in order

vars == << pc, walk, file_path, examples, files, report_path, i, j, lines, clean_files,
           missing_files, bad_examples, report, out, failed, log >>

reconcileVars == << i, j, lines, clean_files, missing_files, bad_examples >>
reportVars == << report_path, report, out, failed >>

Range(s) == { s[k] : k \in 1..Len(s) }

Init ==
    /\ pc = "walk"
    /\ walk \in Walks
    /\ file_path = <<>>
    /\ examples = <<>>
    /\ files = <<>>
    /\ report_path = NoPath
    /\ i = 0
    /\ j = 0
    /\ lines = <<>>
    /\ clean_files = <<>>
    /\ missing_files = <<>>
    /\ bad_examples = <<>>
    /\ report = "unset"
    /\ out = <<>>
    /\ failed = FALSE
    /\ log = <<>>

----------------------------------------------------------------------------
\* gather_data

IsCodeFile(file_name) == Lower(Ext(file_name)) \in DOMAIN EXT_LOOKUP

IsMetadataFile(file_name) == ~IsCodeFile(file_name) /\ Lower(file_name) = METADATA_FILENAME

\* Lines 105-109: a file with a known extension is collected.
WalkCodeFile ==
    /\ pc = "walk" /\ walk # <<>>
    /\ IsCodeFile(Head(walk).name)
    /\ files' = Append(files, make_github_url(Head(walk).folder, Head(walk).name))
    /\ walk' = Tail(walk)
    /\ UNCHANGED << pc, file_path, examples, reconcileVars, reportVars, log >>

\* Neither branch of lines 107-113.
WalkOtherFile ==
    /\ pc = "walk" /\ walk # <<>>
    /\ ~IsCodeFile(Head(walk).name) /\ ~IsMetadataFile(Head(walk).name)
    /\ walk' = Tail(walk)
    /\ UNCHANGED << pc, file_path, examples, files, reconcileVars, reportVars, log >>

\* Lines 110-113 and 127-129: a metadata file is found and opened.
FoundMetadata ==
    /\ pc = "walk" /\ walk # <<>>
    /\ IsMetadataFile(Head(walk).name)
    /\ file_path' = PathJoin(Head(walk).folder, Head(walk).name)
    /\ log' = Append(log, <<"Found metadata", file_path'>>)
    /\ walk' = Tail(walk)
    /\ pc' = "read"
    /\ UNCHANGED << examples, files, reconcileVars, reportVars >>

\* Lines 130-132: safe_load_all is a generator, so the next document is parsed
\* when the loop asks for it, and a document that parses is appended at once.
ReadDocument ==
    /\ pc = "read"
    /\ \E n \in 1..(MaxInput - InputSize(examples)) : \E example_meta \in DocsOfSize(n) :
          examples' = Append(examples, example_meta @@ [metadata_path |-> file_path])
    /\ UNCHANGED << pc, walk, file_path, files, reconcileVars, reportVars, log >>

\* Lines 133-135: the next document raises ScannerError.
ReadScannerError ==
    /\ pc = "read"
    /\ log' = Append(log, <<"Yaml parser error, skipping", file_path>>)
    /\ pc' = "walk"
    /\ UNCHANGED << walk, file_path, examples, files, reconcileVars, reportVars >>

\* The next document raises an error line 133 does not catch (yaml's
\* ParserError for one): it leaves read_metadata, gather_data and main, which
\* catches KeyError only.
ReadUncaughtError ==
    /\ pc = "read"
    /\ pc' = "crashed"
    /\ UNCHANGED << walk, file_path, examples, files, reconcileVars, reportVars, log >>

\* The stream is exhausted: read_metadata returns.
ReadDone ==
    /\ pc = "read"
    /\ pc' = "walk"
    /\ UNCHANGED << walk, file_path, examples, files, reconcileVars, reportVars, log >>

header == <<"File,Language,Service">>

\* gather_data returns (line 114) and main calls write_report (line 223),
\* which sets up its lists (lines 152-156).
CallWriteReport ==
    /\ pc = "walk" /\ walk = <<>>
    /\ \E rp \in ReportPaths : report_path' = rp
    /\ lines' = <<header>>
    /\ clean_files' = <<>>
    /\ missing_files' = <<>>
    /\ bad_examples' = <<>>
    /\ i' = 1
    /\ j' = 1
    /\ pc' = "reconcile"
    /\ UNCHANGED << walk, file_path, examples, files, report, out, failed, log >>

----------------------------------------------------------------------------
\* write_report: reconciliation (lines 158-181)

\* Line 156.
repo_files_lookup == { Lower(rf) : rf \in Range(files) }

\* Lines 161-162.
FileUrl(example, file) == make_github_url(SplitHead(example.metadata_path), file.path)

\* Line 163.
InRepo(file_url) == Lower(file_url) \in repo_files_lookup

\* Line 164 (negated).
AlreadyClean(file_url) == file_url \in Range(clean_files)

\* Line 167 succeeds: the extension, as spelled, is a key of EXT_LOOKUP.
HasLanguage(file_url) == Ext(file_url) \in DOMAIN EXT_LOOKUP

\* Line 168: file.get('services', ['']).
Services(file) == IF "services" \in DOMAIN file THEN file.services ELSE << <<>> >>

\* Line 170: ','.join([file_url, language, service]).
DetailLine(file_url, language, service) ==
    file_url \o <<",">> \o <<language>> \o <<",">> \o service

\* Lines 168-170.
DetailLines(file_url, file) ==
    [k \in 1..Len(Services(file)) |->
        DetailLine(file_url, EXT_LOOKUP[Ext(file_url)], Services(file)[k])]

InLoop == pc = "reconcile" /\ i <= Len(examples)
HasFiles == "files" \in DOMAIN examples[i]
InEntries == InLoop /\ HasFiles /\ j <= Len(examples[i].files)
HasPath == "path" \in DOMAIN examples[i].files[j]

\* KeyErrorHandler without line 181: the record is logged but not tallied.
KeyErrorHandler_NoTally(key) ==
    /\ log' = Append(log, <<"ERROR: example missing a required key", key, examples[i]>>)
    /\ bad_examples' = bad_examples
    /\ i' = i + 1
    /\ j' = 1

\* Lines 179-181: the KeyError handler, then the next example.
KeyErrorHandler(key) ==
    /\ log' = Append(log, <<"ERROR: example missing a required key", key, examples[i]>>)
    /\ bad_examples' = Append(bad_examples, examples[i])
    /\ i' = i + 1
    /\ j' = 1

\* Line 160 raises KeyError('files').
NoFilesKey ==
    /\ InLoop /\ ~HasFiles
    /\ KeyErrorHandler(<<"files">>)
    /\ UNCHANGED << pc, walk, file_path, examples, files, lines, clean_files, missing_files, reportVars >>

\* Line 162 raises KeyError('path').
NoPathKey ==
    /\ InEntries /\ ~HasPath
    /\ KeyErrorHandler(<<"path">>)
    /\ UNCHANGED << pc, walk, file_path, examples, files, lines, clean_files, missing_files, reportVars >>

\* Lines 163-170: a first reference to a collected file.
EntryClean ==
    /\ InEntries /\ HasPath
    /\ LET file == examples[i].files[j]
           file_url == FileUrl(examples[i], file)
       IN  /\ InRepo(file_url) /\ ~AlreadyClean(file_url) /\ HasLanguage(file_url)
           /\ clean_files' = Append(clean_files, file_url)
           /\ lines' = lines \o DetailLines(file_url, file)
    /\ j' = j + 1
    /\ UNCHANGED << pc, walk, file_path, examples, files, i, missing_files, bad_examples, reportVars, log >>

\* Lines 163-167 when EXT_LOOKUP[ext] raises KeyError: the file is already
\* in clean_files, and the handler of lines 179-181 ends the example.
EntryUnknownExt ==
    /\ InEntries /\ HasPath
    /\ LET file == examples[i].files[j]
           file_url == FileUrl(examples[i], file)
       IN  /\ InRepo(file_url) /\ ~AlreadyClean(file_url) /\ ~HasLanguage(file_url)
           /\ clean_files' = Append(clean_files, file_url)
           /\ KeyErrorHandler(Ext(file_url))
    /\ UNCHANGED << pc, walk, file_path, examples, files, lines, missing_files, reportVars >>

\* Lines 171-173.
EntryDuplicate ==
    /\ InEntries /\ HasPath
    /\ LET file_url == FileUrl(examples[i], examples[i].files[j])
       IN  /\ InRepo(file_url) /\ AlreadyClean(file_url)
           /\ log' = Append(log, <<"reported a second time", file_url,
                                   examples[i].metadata_path>>)
    /\ j' = j + 1
    /\ UNCHANGED << pc, walk, file_path, examples, files, i, lines, clean_files, missing_files,
                    bad_examples, reportVars >>

\* EntryMissing with missing_files kept free of duplicates.
EntryMissing_Dedup ==
    /\ InEntries /\ HasPath
    /\ LET file_url == FileUrl(examples[i], examples[i].files[j])
       IN  /\ ~InRepo(file_url)
           /\ missing_files' = IF file_url \in Range(missing_files)
                               THEN missing_files
                               ELSE Append(missing_files, file_url)
           /\ log' = Append(log, <<"does not exist in the repo", file_url>>)
    /\ j' = j + 1
    /\ UNCHANGED << pc, walk, file_path, examples, files, i, lines, clean_files, bad_examples, reportVars >>

\* Lines 174-178.
EntryMissing ==
    /\ InEntries /\ HasPath
    /\ LET file_url == FileUrl(examples[i], examples[i].files[j])
       IN  /\ ~InRepo(file_url)
           /\ missing_files' = Append(missing_files, file_url)
           /\ log' = Append(log, <<"does not exist in the repo", file_url>>)
    /\ j' = j + 1
    /\ UNCHANGED << pc, walk, file_path, examples, files, i, lines, clean_files, bad_examples, reportVars >>

\* The loop of line 160 is exhausted: next example.
ExampleDone ==
    /\ InLoop /\ HasFiles /\ j > Len(examples[i].files)
    /\ i' = i + 1
    /\ j' = 1
    /\ UNCHANGED << pc, walk, file_path, examples, files, lines, clean_files, missing_files,
                    bad_examples, reportVars, log >>

\* The loop of line 158 is exhausted.
ReconcileDone ==
    /\ pc = "reconcile" /\ i > Len(examples)
    /\ pc' = "open"
    /\ UNCHANGED << walk, file_path, examples, files, reconcileVars, reportVars, log >>

----------------------------------------------------------------------------
\* write_report: the report (lines 183-200)

\* Line 193: f"{clean_count/total_count:.0%}", the ratio times 100 rounded to
\* an integer, halves to even.
Percent(clean_count, total_count) ==
    LET q == (100 * clean_count) \div total_count
        r == (100 * clean_count) % total_count
    IN  IF 2 * r < total_count THEN q
        ELSE IF 2 * r > total_count THEN q + 1
        ELSE IF q % 2 = 0 THEN q ELSE q + 1

\* '\n'.join(strs)
RECURSIVE JoinLines(_)
JoinLines(strs) ==
    IF strs = <<>> THEN <<>>
    ELSE IF Len(strs) = 1 THEN strs[1]
    ELSE strs[1] \o <<"\n">> \o JoinLines(Tail(strs))

\* Writes without the write of line 195.
Writes_NoLineBreak ==
    LET clean_count == Len(clean_files)
        total_count == Len(files)
    IN  << <<"Total number of examples: ",
             ToString(Len(examples) - Len(bad_examples)), ".", "\n">>,
           <<"Total number of cleaned files: ", ToString(clean_count), ".", "\n">>,
           <<"Total number of files: ", ToString(total_count), ".", "\n">> >>
        \o (IF total_count > 0
            THEN << <<"Percent clean: ", ToString(Percent(clean_count, total_count)),
                      "%", ".">> >>
            ELSE <<>>)
        \o (IF Len(lines) > 1 THEN << JoinLines(lines) >> ELSE <<>>)

\* Lines 185-196: the strings handed to report.write, in order.
Writes ==
    LET clean_count == Len(clean_files)
        total_count == Len(files)
    IN  << <<"Total number of examples: ",
             ToString(Len(examples) - Len(bad_examples)), ".", "\n">>,
           <<"Total number of cleaned files: ", ToString(clean_count), ".", "\n">>,
           <<"Total number of files: ", ToString(total_count), ".", "\n">> >>
        \o (IF total_count > 0
            THEN << <<"Percent clean: ", ToString(Percent(clean_count, total_count)),
                      "%", ".">> >>
            ELSE <<>>)
        \o (IF Len(lines) > 1 THEN << <<"\n">>, JoinLines(lines) >> ELSE <<>>)

\* Line 183, report_path given: open(report_path, 'w') truncates the file.
OpenFile ==
    /\ pc = "open" /\ report_path # NoPath
    /\ report' = "open"
    /\ out' = <<>>
    /\ pc' = "write"
    /\ UNCHANGED << walk, file_path, examples, files, report_path, reconcileVars, failed, log >>

\* Line 183, open raises OSError: it is outside the try block and leaves main.
OpenFails ==
    /\ pc = "open" /\ report_path # NoPath
    /\ pc' = "crashed"
    /\ UNCHANGED << walk, file_path, examples, files, reconcileVars, reportVars, log >>

\* Line 183, no report_path: sys.stdout.
UseStdout ==
    /\ pc = "open" /\ report_path = NoPath
    /\ report' = "stdout"
    /\ pc' = "write"
    /\ UNCHANGED << walk, file_path, examples, files, report_path, reconcileVars, out, failed, log >>

\* Lines 185-196, every write succeeds.
WriteReport ==
    /\ pc = "write"
    /\ out' = out \o Writes
    /\ pc' = "finally"
    /\ UNCHANGED << walk, file_path, examples, files, report_path, reconcileVars, report, failed, log >>

\* Lines 185-196, a write raises OSError after k writes succeeded.
WriteFails ==
    /\ pc = "write"
    /\ \E k \in 0..(Len(Writes) - 1) : out' = out \o SubSeq(Writes, 1, k)
    /\ failed' = TRUE
    /\ pc' = "finally"
    /\ UNCHANGED << walk, file_path, examples, files, report_path, reconcileVars, report, log >>

\* Lines 197-200, the destination is a file; a pending exception then leaves main.
FinallyClose ==
    /\ pc = "finally" /\ report # "stdout"
    /\ report' = "closed"
    /\ log' = Append(log, <<"Report written to", report_path>>)
    /\ pc' = IF failed THEN "crashed" ELSE "done"
    /\ UNCHANGED << walk, file_path, examples, files, report_path, reconcileVars, out, failed >>

\* Lines 197-198, the destination is sys.stdout.
FinallyStdout ==
    /\ pc = "finally" /\ report = "stdout"
    /\ pc' = IF failed THEN "crashed" ELSE "done"
    /\ UNCHANGED << walk, file_path, examples, files, reconcileVars, reportVars, log >>

----------------------------------------------------------------------------
Next ==
    \/ WalkCodeFile
    \/ WalkOtherFile
    \/ FoundMetadata
    \/ ReadDocument
    \/ ReadDone
    \/ ReadScannerError
    \/ ReadUncaughtError
    \/ CallWriteReport
    \/ NoFilesKey
    \/ NoPathKey
    \/ EntryClean
    \/ EntryUnknownExt
    \/ EntryDuplicate
    \/ EntryMissing
    \/ ExampleDone
    \/ ReconcileDone
    \/ OpenFile
    \/ OpenFails
    \/ UseStdout
    \/ WriteReport
    \/ WriteFails
    \/ FinallyClose
    \/ FinallyStdout

Spec == Init /\ [][Next]_vars

----------------------------------------------------------------------------
\* Vocabulary of the properties

Reconciled == pc \in {"open", "write", "finally", "done"} \/ (pc = "crashed" /\ i > 0)

\* The detail lines (lines without the header row).
Details == IF lines = <<>> THEN <<>> ELSE Tail(lines)

\* line is a detail line of file_url: it starts with file_url and a comma.
IsLineOf(line, file_url) ==
    /\ Len(line) > Len(file_url)
    /\ SubSeq(line, 1, Len(file_url)) = file_url
    /\ line[Len(file_url) + 1] = ","

RECURSIVE LinesOf(_, _)
LinesOf(ls, file_url) ==
    IF ls = <<>> THEN <<>>
    ELSE (IF IsLineOf(Head(ls), file_url) THEN <<Head(ls)>> ELSE <<>>)
         \o LinesOf(Tail(ls), file_url)

\* The service field of a detail line of file_url: what follows its second comma.
ServiceOf(line, file_url) == SubSeq(line, Len(file_url) + 4, Len(line))

Count(s, x) == Cardinality({ k \in 1..Len(s) : s[k] = x })

\* The references of the input: <<r, e>> is entry e of record r, which has a path.
EntriesOf(r) ==
    IF "files" \in DOMAIN examples[r]
    THEN { e \in 1..Len(examples[r].files) : "path" \in DOMAIN examples[r].files[e] }
    ELSE {}

Refs == UNION { { <<r, e>> : e \in EntriesOf(r) } : r \in 1..Len(examples) }

EntryAt(p) == examples[p[1]].files[p[2]]
UrlAt(p) == FileUrl(examples[p[1]], EntryAt(p))
RefsTo(file_url) == { p \in Refs : UrlAt(p) = file_url }
Before(p, q) == p[1] < q[1] \/ (p[1] = q[1] /\ p[2] <= q[2])
FirstRef(file_url) == CHOOSE p \in RefsTo(file_url) : \A q \in RefsTo(file_url) : Before(p, q)

\* A record that lacks a required field: `files`, or the `path` of an entry.
LacksField(example) ==
    \/ "files" \notin DOMAIN example
    \/ \E k \in 1..Len(example.files) : "path" \notin DOMAIN example.files[k]

----------------------------------------------------------------------------
\* C1: the number of clean files never exceeds the number of collected
\* files, also when referenced paths differ from the collected ones only in
\* letter case.
C1_CleanAtMostCollected == Len(clean_files) <= Len(files)

\* C2: once reconciliation is over, a file identifier that two different
\* records reference and that matches a collected file is in clean_files
\* exactly once, and its detail lines are those of the service list of its
\* first reference in input order, one per service, in order.
C2_FirstReferenceWins ==
    Reconciled =>
        \A p \in Refs : \A q \in Refs :
            (p[1] < q[1] /\ UrlAt(p) = UrlAt(q) /\ InRepo(UrlAt(p))) =>
                LET file_url == UrlAt(p)
                    services == Services(EntryAt(FirstRef(file_url)))
                    found    == LinesOf(Details, file_url)
                IN  /\ Count(clean_files, file_url) = 1
                    /\ Len(found) = Len(services)
                    /\ \A k \in 1..Len(found) : ServiceOf(found[k], file_url) = services[k]

NoFilesCount == Cardinality({ r \in 1..Len(examples) : "files" \notin DOMAIN examples[r] })

\* C4: a record without `files` does not abort write_report. The step that
\* meets it appends it to bad_examples once and moves to the next record;
\* the loop is left only after the last record, towards the report; after
\* the loop each such record is in bad_examples as often as in examples;
\* and the first line written is 'Total number of examples: N.' with
\* N = len(examples) - len(bad_examples), which is not negative and does
\* not count those records.
C4_NoFilesRecordTallied ==
    [][ /\ (InLoop /\ ~HasFiles) =>
              /\ bad_examples' = Append(bad_examples, examples[i])
              /\ i' = i + 1
              /\ pc' = "reconcile"
              /\ UNCHANGED << examples, lines, clean_files, missing_files >>
        /\ (pc = "reconcile" /\ pc' # "reconcile") => (i > Len(examples) /\ pc' = "open")
        /\ (pc' \in {"open", "write", "finally", "done"}) =>
              \A r \in 1..Len(examples') :
                  "files" \notin DOMAIN examples'[r] =>
                      Count(bad_examples', examples'[r]) = Count(examples', examples'[r])
        /\ (pc = "write" /\ pc' = "finally" /\ ~failed') =>
              LET n == Len(examples) - Len(bad_examples)
              IN  /\ out'[1] = <<"Total number of examples: ", ToString(n), ".", "\n">>
                  /\ n >= 0
                  /\ n <= Len(examples) - NoFilesCount
      ]_vars

\* C4 witness: the report was written for two records, the first without
\* `files`, the second processed after it and yielding a clean file; the
\* report counts one example.
C4_Witness ==
    /\ pc = "done"
    /\ Len(examples) = 2
    /\ "files" \notin DOMAIN examples[1]
    /\ "files" \in DOMAIN examples[2]
    /\ Len(bad_examples) = 1
    /\ Len(clean_files) = 1
    /\ out[1][2] = "1"

RECURSIVE Concat(_)
Concat(strs) == IF strs = <<>> THEN <<>> ELSE Head(strs) \o Concat(Tail(strs))

\* str.splitlines(): the text cut at its line breaks.
RECURSIVE SplitLines(_, _)
SplitLines(text, cur) ==
    IF text = <<>> THEN (IF cur = <<>> THEN <<>> ELSE <<cur>>)
    ELSE IF Head(text) = "\n" THEN <<cur>> \o SplitLines(Tail(text), <<>>)
    ELSE SplitLines(Tail(text), Append(cur, Head(text)))

\* The report as written, line by line.
ReportLines == SplitLines(Concat(out), <<>>)

CountRows ==
    << <<"Total number of examples: ", ToString(Len(examples) - Len(bad_examples)), ".">>,
       <<"Total number of cleaned files: ", ToString(Len(clean_files)), ".">>,
       <<"Total number of files: ", ToString(Len(files)), ".">> >>

PercentRows == IF Len(files) > 0 THEN 1 ELSE 0

\* The detail lines are in insertion order: files in the order of
\* clean_files, which follows the order of the references, and the lines of
\* a file in the order of the service list of one of its references.
InsertionOrder ==
    /\ \A a \in 1..Len(Details) : \A b \in 1..Len(Details) :
          a < b =>
              \E m \in 1..Len(clean_files) : \E n \in m..Len(clean_files) :
                  IsLineOf(Details[a], clean_files[m]) /\ IsLineOf(Details[b], clean_files[n])
    /\ \A a \in 1..Len(clean_files) : \A b \in 1..Len(clean_files) :
          a < b =>
              \E p \in RefsTo(clean_files[a]) : \E q \in RefsTo(clean_files[b]) :
                  p # q /\ Before(p, q)
    /\ \A u \in Range(clean_files) :
          \/ LinesOf(Details, u) = <<>>
          \/ \E p \in RefsTo(u) : LinesOf(Details, u) = DetailLines(u, EntryAt(p))

\* C9 as stated: the three count lines, the percent line iff files were
\* collected, then, iff there are detail lines, a blank line followed by the
\* header and the detail lines in insertion order.
C9_ReportWithBlankLine ==
    pc = "done" =>
        /\ Len(ReportLines) =
               3 + PercentRows + (IF Details # <<>> THEN 1 + Len(lines) ELSE 0)
        /\ SubSeq(ReportLines, 1, 3) = CountRows
        /\ PercentRows = 1 => ReportLines[4][1] = "Percent clean: "
        /\ Details # <<>> =>
              /\ ReportLines[4 + PercentRows] = <<>>
              /\ SubSeq(ReportLines, 5 + PercentRows, Len(ReportLines)) = lines
        /\ InsertionOrder

\* C9 amended: the three count lines, the percent line iff files were
\* collected, then, iff there are detail lines, the header and the detail
\* lines in insertion order, each on a line of its own; no blank line
\* precedes the header (the line break written before it ends the percent
\* line).
C9_ReportLayout ==
    pc = "done" =>
        /\ Len(ReportLines) = 3 + PercentRows + (IF Details # <<>> THEN Len(lines) ELSE 0)
        /\ SubSeq(ReportLines, 1, 3) = CountRows
        /\ PercentRows = 1 => ReportLines[4][1] = "Percent clean: "
        /\ Details # <<>> => SubSeq(ReportLines, 4 + PercentRows, Len(ReportLines)) = lines
        /\ \A k \in 1..Len(ReportLines) : ReportLines[k] # <<>>
        /\ InsertionOrder

\* C9 witness: a report with the percent line, the header and two detail
\* lines of one file for two different services.
C9_Witness ==
    /\ pc = "done"
    /\ Len(files) > 0
    /\ Len(clean_files) = 1
    /\ Len(Details) = 2
    /\ Details[1] # Details[2]
    /\ Len(ReportLines) = 7

\* C5: a record that lacks a required field (`files`, or the `path` of one
\* of its entries) is skipped as a whole: while the reconciler is on such a
\* record no step adds anything to clean_files, missing_files or the detail
\* lines, and the step that leaves the record tallies it in bad_examples.
C5_FaultyRecordSkippedWhole ==
    [][ (InLoop /\ LacksField(examples[i])) =>
            /\ UNCHANGED << clean_files, missing_files, lines >>
            /\ i' # i => bad_examples' = Append(bad_examples, examples[i])
      ]_vars

\* The service tags an entry declares, each taken once; an entry that
\* declares none stands for the single empty tag.
DeclaredServices(file) ==
    IF "services" \in DOMAIN file /\ file.services # <<>>
    THEN Range(file.services)
    ELSE { <<>> }

\* C6: once reconciliation is over, every identifier in clean_files has
\* exactly one detail line for each distinct service its first reference
\* declares (one line with an empty service field if it declares none),
\* and no other detail line. Stated for the identifiers whose extension is
\* spelled as in EXT_LOOKUP; C10 is about the others.
C6_OneLinePerDistinctService ==
    Reconciled =>
        \A u \in { c \in Range(clean_files) : HasLanguage(c) } :
            LET declared == DeclaredServices(EntryAt(FirstRef(u)))
                found    == LinesOf(Details, u)
            IN  /\ Len(found) = Cardinality(declared)
                /\ \A s \in declared :
                      Cardinality({ k \in 1..Len(found) : ServiceOf(found[k], u) = s }) = 1

\* C7: when read_metadata logged a parser error for a metadata file, none of
\* that file's documents is in examples.
C7_MalformedFileSkipped ==
    \A k \in 1..Len(log) :
        log[k][1] = "Yaml parser error, skipping" =>
            \A r \in 1..Len(examples) : examples[r].metadata_path # log[k][2]

Confirmed == \E k \in 1..Len(log) : log[k][1] = "Report written to"

\* C8: a named destination that was opened is closed on every exit path;
\* the confirmation is logged only when every write succeeded and the
\* destination is closed; without a named destination standard output is
\* never closed and nothing is confirmed.
C8_ConfirmationOnlyAfterWrite ==
    /\ (report_path # NoPath /\ report # "unset" /\ pc \in {"done", "crashed"}) =>
           report = "closed"
    /\ Confirmed => (report = "closed" /\ ~failed /\ out = Writes)
    /\ (report_path = NoPath /\ i > 0) => (report # "closed" /\ ~Confirmed)

\* C10: a referenced file that matches the collected set and is not yet
\* clean has its language in EXT_LOOKUP; every clean file that declares
\* services has detail lines; and no record whose entries all carry a
\* `path` is tallied as bad.
C10_LanguageAlwaysFound ==
    /\ (InEntries /\ HasPath) =>
           LET file_url == FileUrl(examples[i], examples[i].files[j])
           IN  (InRepo(file_url) /\ ~AlreadyClean(file_url)) => HasLanguage(file_url)
    /\ \A u \in Range(clean_files) :
           (~(InEntries /\ HasPath) /\ Services(EntryAt(FirstRef(u))) # <<>>) =>
               LinesOf(Details, u) # <<>>
    /\ \A b \in 1..Len(bad_examples) : LacksField(bad_examples[b])

====
